---------------------------- MODULE Spec2Model ----------------------------
(***************************************************************************)
(* Model of tfjs-backend-wasm/src/util.h: the two inline helpers           *)
(*   tfjs::util::size_from_shape  (product of a shape's extents, in int)   *)
(*   tfjs::util::log_vector       (prints "[v1,v2,...,]\n" by printf)      *)
(* Calls are modelled statement by statement, so that calls made by        *)
(* different threads can interleave.                                       *)
(***************************************************************************)
EXTENDS Integers, Sequences, FiniteSets

VARIABLES
  pc,       \* per thread: "idle", "size_loop" (line 36) or "log_loop" (line 27)
  op,       \* per thread: the operation it called last: "none", "size", "log"
  arg,      \* per thread: the caller's vector, bound to the const reference
  given,    \* per thread: the value of that vector when the call was made
  idx,      \* per thread: how many elements the range-for has consumed
  prod,     \* the accumulators `int prod`, one slot per live call (see Acc)
  ret,      \* per thread: the value the last size_from_shape call returned
  stream,   \* stdout: the characters written so far, in order
  mark,     \* per thread: Len(stream) when its last log_vector call began
  memo,     \* the first completed size_from_shape call: its shape and result
  calls,    \* number of calls made so far by the program
  ub,       \* an int multiplication has left the range of int (line 37)
  trapped   \* the process was aborted by an overflow trap

vars == <<pc, op, arg, given, idx, prod, ret, stream, mark, memo, calls, ub, trapped>>

---------------------------------------------------------------------------
\* Bounds of the model.

\* Longest shape passed to size_from_shape.
MaxRank == 3

\* Longest vector passed to log_vector.
MaxLen == 3

\* Number of calls a sequential program makes.
MaxCalls == 3

---------------------------------------------------------------------------
\* The type int of the target (wasm32: 32 bits, two's complement).

IntMax == 2147483647

IntMin == -IntMax - 1

Half == 2^16

Byte == 2^8

Threads == {"t1", "t2"}

Main == "t1"

NoMemo == [set |-> FALSE, shape |-> <<>>, result |-> 0]

\* All sequences over S of length at most n.
SeqsUpTo(S, n) == UNION {[1..k -> S] : k \in 0..n}

---------------------------------------------------------------------------
\* 32-bit multiplication.  Every intermediate value stays below 2^31, so the
\* operators can be evaluated on any pair of ints.

\* x*y for 0 <= x, y < 2^16, as the two 16-bit halves of the 32-bit result.
Mul16(x, y) ==
  LET t1 == x * (y \div Byte)
      t0 == x * (y % Byte)
      s  == (t1 % Byte) * Byte + t0
  IN  [hi |-> (t1 \div Byte + s \div Half) % Half, lo |-> s % Half]

\* The low 32 bits of a*b read as a two's complement int: what i32.mul yields.
WrapMulBits(a, b) ==
  LET al == a % Half
      ah == (a \div Half) % Half
      bl == b % Half
      bh == (b \div Half) % Half
      ll == Mul16(al, bl)
      hi == (ll.hi + Mul16(ah, bl).lo + Mul16(al, bh).lo) % Half
  IN  IF hi >= Half \div 2 THEN (hi - Half) * Half + ll.lo ELSE hi * Half + ll.lo

Abs(x) == IF x < 0 THEN -x ELSE x

\* The mathematical product a*b is representable in int.
Fits(a, b) ==
  IF a = 0 \/ b = 0 THEN TRUE
  ELSE IF a = IntMin THEN b = 1
  ELSE IF b = IntMin THEN a = 1
  ELSE IF (a < 0) = (b < 0)
       THEN Abs(a) <= IntMax \div Abs(b)
       ELSE \/ Abs(a) <= IntMax \div Abs(b)
            \/ /\ IntMax % Abs(b) = Abs(b) - 1
               /\ Abs(a) - 1 = IntMax \div Abs(b)

\* Variant: the product saturates at the ends of int instead of wrapping.
MulSaturated(a, b) ==
  IF Fits(a, b) THEN WrapMulBits(a, b)
  ELSE IF (a < 0) = (b < 0) THEN IntMax ELSE IntMin

\* Variant: a negative factor is clamped to 0 before multiplying.
MulClamped(a, b) == WrapMulBits(a, IF b < 0 THEN 0 ELSE b)

\* `prod *= v` on the target.
WrapMul(a, b) == WrapMulBits(a, b)

---------------------------------------------------------------------------
\* size_from_shape

\* Variant: the accumulator is one object shared by all calls.
AccShared(t) == Main

\* The accumulator a call by thread t works on: `int prod` is a local of the
\* call, so every call has a slot of its own.
Acc(t) == t

\* Variant: `static int prod = 1;`, one storage initialised once and kept
\* from call to call.
ProdStatic == IF calls = 0 THEN 1 ELSE prod[Main]

\* Variant: the accumulator starts from 0.
ProdInitZero == 1 - 1

\* `int prod = 1;`
ProdInit == 1

\* Variant: the loop reads position i, clamped to the first, instead of i+1.
VisitStale(s, i) == s[IF i = 0 THEN 1 ELSE i]

\* The elements the range-for visits: position i+1 after i have been consumed.
Visit(s, i) == s[i + 1]

\* Entry of size_from_shape(shape): binds the reference and initialises prod.
CallSize(t, s) ==
  /\ ~trapped
  /\ pc[t] = "idle"
  /\ pc' = [pc EXCEPT ![t] = "size_loop"]
  /\ op' = [op EXCEPT ![t] = "size"]
  /\ arg' = [arg EXCEPT ![t] = s]
  /\ given' = [given EXCEPT ![t] = s]
  /\ idx' = [idx EXCEPT ![t] = 0]
  /\ prod' = [prod EXCEPT ![Acc(t)] = ProdInit]
  /\ calls' = calls + 1
  /\ UNCHANGED <<ret, stream, mark, memo, ub, trapped>>

\* One iteration of the loop: `prod *= v;`, an i32.mul on the target.  When
\* the mathematical product leaves the range of int the behaviour is
\* undefined: the build either keeps the wrapped value or, when compiled with
\* overflow trapping, aborts the process.
SizeStep(t) ==
  /\ ~trapped
  /\ pc[t] = "size_loop"
  /\ idx[t] < Len(arg[t])
  /\ LET v == Visit(arg[t], idx[t])
         p == prod[Acc(t)]
     IN  \/ /\ Fits(p, v)
            /\ prod' = [prod EXCEPT ![Acc(t)] = WrapMul(p, v)]
            /\ idx' = [idx EXCEPT ![t] = idx[t] + 1]
            /\ UNCHANGED <<ub, trapped>>
         \/ /\ ~Fits(p, v)
            /\ prod' = [prod EXCEPT ![Acc(t)] = WrapMul(p, v)]
            /\ idx' = [idx EXCEPT ![t] = idx[t] + 1]
            /\ ub' = TRUE
            /\ UNCHANGED trapped
         \/ /\ ~Fits(p, v)
            /\ ub' = TRUE
            /\ trapped' = TRUE
            /\ UNCHANGED <<prod, idx>>
  /\ UNCHANGED <<pc, op, arg, given, ret, stream, mark, memo, calls>>

\* `return prod;` once the loop has consumed the whole shape.
SizeReturn(t) ==
  /\ ~trapped
  /\ pc[t] = "size_loop"
  /\ idx[t] = Len(arg[t])
  /\ pc' = [pc EXCEPT ![t] = "idle"]
  /\ ret' = [ret EXCEPT ![t] = prod[Acc(t)]]
  /\ memo' = IF memo.set THEN memo
             ELSE [set |-> TRUE, shape |-> given[t], result |-> prod[Acc(t)]]
  /\ UNCHANGED <<op, arg, given, idx, prod, stream, mark, calls, ub, trapped>>

---------------------------------------------------------------------------
\* log_vector, instantiated at T = int (the type "%d" converts).

Digit == <<"0", "1", "2", "3", "4", "5", "6", "7", "8", "9">>

\* The digits printf writes for a magnitude m >= 0, most significant first.
RECURSIVE Digits(_)
Digits(m) ==
  IF m < 10 THEN <<Digit[m + 1]>>
  ELSE Digits(m \div 10) \o <<Digit[(m % 10) + 1]>>

\* The conversion "%d" of an int: a minus sign for a negative value, then the
\* digits of its magnitude.
Dec(n) ==
  IF n >= 0 THEN Digits(n)
  ELSE IF n = IntMin THEN <<"-">> \o Digits(-(n + 10) \div 10) \o <<Digit[9]>>
  ELSE <<"-">> \o Digits(-n)

\* Variant: the separator is ", " instead of ",".
FormatItemSpaced(value) == Dec(value) \o <<",", " ">>

\* The text of printf("%d,", value).
FormatItem(value) == Dec(value) \o <<",">>

\* The text of printf("[").
OpenText == <<"[">>

\* The text of printf("]\n").
CloseText == <<"]", "\n">>

\* One printf call writes its text to stdout as a whole: stdio locks the
\* stream for the duration of one call, and only for that.
Printf(text) == stream \o text

\* Entry of log_vector(v) and its first statement, printf("[").
CallLog(t, v) ==
  /\ ~trapped
  /\ pc[t] = "idle"
  /\ pc' = [pc EXCEPT ![t] = "log_loop"]
  /\ op' = [op EXCEPT ![t] = "log"]
  /\ arg' = [arg EXCEPT ![t] = v]
  /\ given' = [given EXCEPT ![t] = v]
  /\ idx' = [idx EXCEPT ![t] = 0]
  /\ mark' = [mark EXCEPT ![t] = Len(stream)]
  /\ stream' = Printf(OpenText)
  /\ calls' = calls + 1
  /\ UNCHANGED <<prod, ret, memo, ub, trapped>>

\* One iteration of the loop: printf("%d,", value).
LogStep(t) ==
  /\ ~trapped
  /\ pc[t] = "log_loop"
  /\ idx[t] < Len(arg[t])
  /\ stream' = Printf(FormatItem(Visit(arg[t], idx[t])))
  /\ idx' = [idx EXCEPT ![t] = idx[t] + 1]
  /\ UNCHANGED <<pc, op, arg, given, prod, ret, mark, memo, calls, ub, trapped>>

\* printf("]\n") after the loop, and the return.
LogReturn(t) ==
  /\ ~trapped
  /\ pc[t] = "log_loop"
  /\ idx[t] = Len(arg[t])
  /\ stream' = Printf(CloseText)
  /\ pc' = [pc EXCEPT ![t] = "idle"]
  /\ UNCHANGED <<op, arg, given, idx, prod, ret, mark, memo, calls, ub, trapped>>

---------------------------------------------------------------------------
\* Inputs.

Extents == {-3, -1, 0, 1, 2, 3, 4, 5, 32768, 46341, 65536}

Shapes == SeqsUpTo(Extents, MaxRank)

LogValues == {IntMin, -12, 0, 1, 2, 3, 305, IntMax}

Vectors == SeqsUpTo(LogValues, MaxLen)

Init ==
  /\ pc = [t \in Threads |-> "idle"]
  /\ op = [t \in Threads |-> "none"]
  /\ arg = [t \in Threads |-> <<>>]
  /\ given = [t \in Threads |-> <<>>]
  /\ idx = [t \in Threads |-> 0]
  /\ prod = [t \in Threads |-> 0]
  /\ ret = [t \in Threads |-> 0]
  /\ stream = <<>>
  /\ mark = [t \in Threads |-> 0]
  /\ memo = NoMemo
  /\ calls = 0
  /\ ub = FALSE
  /\ trapped = FALSE

\* A program that makes one call.
Next ==
  \/ calls = 0 /\ \E s \in Shapes : CallSize(Main, s)
  \/ SizeStep(Main)
  \/ SizeReturn(Main)
  \/ calls = 0 /\ \E v \in Vectors : CallLog(Main, v)
  \/ LogStep(Main)
  \/ LogReturn(Main)

Spec == Init /\ [][Next]_vars

\* A sequential program that makes up to MaxCalls calls, one after another.
SeqExtents == {-1, 0, 46341}

SeqShapes == SeqsUpTo(SeqExtents, MaxRank)

SeqVectors == {<<-12, 305>>}

NextSeq ==
  \/ calls < MaxCalls /\ \E s \in SeqShapes : CallSize(Main, s)
  \/ SizeStep(Main)
  \/ SizeReturn(Main)
  \/ calls < MaxCalls /\ \E v \in SeqVectors : CallLog(Main, v)
  \/ LogStep(Main)
  \/ LogReturn(Main)

SpecSeq == Init /\ [][NextSeq]_vars

\* Two threads, each making one call, their statements interleaved.
ConcExtents == {-1, 3, 46341}

ConcShapes == SeqsUpTo(ConcExtents, MaxRank)

ConcValues == {-12, 305}

ConcVectors == SeqsUpTo(ConcValues, MaxLen)

NextConc ==
  \E t \in Threads :
    \/ op[t] = "none" /\ \E s \in ConcShapes : CallSize(t, s)
    \/ SizeStep(t)
    \/ SizeReturn(t)
    \/ op[t] = "none" /\ \E v \in ConcVectors : CallLog(t, v)
    \/ LogStep(t)
    \/ LogReturn(t)

SpecConc == Init /\ [][NextConc]_vars

---------------------------------------------------------------------------
\* Reference definitions the properties are stated with.

\* The mathematical product of the first k extents of s, for use only where
\* PrefixFits(s, k) holds.
RECURSIVE PrefixProduct(_, _)
PrefixProduct(s, k) == IF k = 0 THEN 1 ELSE PrefixProduct(s, k - 1) * s[k]

\* Every left-to-right partial product of the first k extents of s is an int.
RECURSIVE PrefixFits(_, _)
PrefixFits(s, k) ==
  IF k = 0 THEN TRUE
  ELSE PrefixFits(s, k - 1) /\ Fits(PrefixProduct(s, k - 1), s[k])

\* Thread t has returned from a call of size_from_shape / of log_vector.
SizeReturned(t) == pc[t] = "idle" /\ op[t] = "size"

LogReturned(t) == pc[t] = "idle" /\ op[t] = "log"

HasZero(s) == \E i \in 1..Len(s) : s[i] = 0

NegCount(s) == Cardinality({i \in 1..Len(s) : s[i] < 0})

\* What thread t's last log_vector call has written (sequential programs).
Emitted(t) == SubSeq(stream, mark[t] + 1, Len(stream))

IsDigit(c) == \E d \in 1..10 : Digit[d] = c

DigitValue(c) == (CHOOSE d \in 1..10 : Digit[d] = c) - 1

\* f is the canonical decimal numeral of an integer: an optional "-", then
\* digits without a leading zero ("0" itself excepted, and no "-0").
IsNumeral(f) ==
  LET neg == Len(f) > 0 /\ f[1] = "-"
      ds  == IF neg THEN Tail(f) ELSE f
  IN  /\ Len(ds) > 0
      /\ \A i \in 1..Len(ds) : IsDigit(ds[i])
      /\ Len(ds) > 1 => ds[1] # "0"
      /\ neg => ds # <<"0">>

\* Minus the value of the digit string ds (accumulated negatively, so that
\* the magnitude of the least int is reached without leaving int).
RECURSIVE NegValue(_)
NegValue(ds) ==
  IF Len(ds) = 0 THEN 0
  ELSE NegValue(SubSeq(ds, 1, Len(ds) - 1)) * 10 - DigitValue(ds[Len(ds)])

\* The numeral f denotes the int n.
Denotes(f, n) ==
  /\ IsNumeral(f)
  /\ IF f[1] = "-" THEN n < 0 /\ NegValue(Tail(f)) = n
     ELSE n >= 0 /\ NegValue(f) = IF n = 0 THEN 0 ELSE -n

\* body is, for each element of v in order, its numeral followed by ",".
RECURSIVE ItemsOf(_, _)
ItemsOf(body, v) ==
  IF Len(v) = 0 THEN body = <<>>
  ELSE \E k \in 2..Len(body) :
         /\ body[k] = ","
         /\ \A j \in 1..(k - 1) : body[j] # ","
         /\ Denotes(SubSeq(body, 1, k - 1), v[1])
         /\ ItemsOf(SubSeq(body, k + 1, Len(body)), Tail(v))

\* text is the line the documentation gives for v: "[", the items, "]", "\n".
IsLineOf(text, v) ==
  /\ Len(text) >= 3
  /\ text[1] = "["
  /\ text[Len(text) - 1] = "]"
  /\ text[Len(text)] = "\n"
  /\ ItemsOf(SubSeq(text, 2, Len(text) - 2), v)

---------------------------------------------------------------------------
\* Properties of a single call (specification Spec).

\* C1: for every shape, after the k-th extent the accumulator equals the
\* mathematical product of the first k extents, and the returned value is the
\* product of all of them.
AccumulatorIsProduct ==
  \A t \in Threads :
    op[t] = "size" =>
      /\ PrefixFits(given[t], idx[t])
      /\ prod[Acc(t)] = PrefixProduct(given[t], idx[t])
      /\ SizeReturned(t) => ret[t] = PrefixProduct(given[t], Len(given[t]))

\* C2: for the empty shape size_from_shape returns exactly 1.
EmptyShapeGivesOne ==
  \A t \in Threads : (SizeReturned(t) /\ given[t] = <<>>) => ret[t] = 1

EmptyShapeReturned ==
  \E t \in Threads : SizeReturned(t) /\ given[t] = <<>> /\ ret[t] = 1

\* C3: for shapes of non-negative extents, no multiplication of the
\* accumulator leaves the range of int unguarded.
NoUncheckedOverflow ==
  \A t \in Threads :
    (op[t] = "size" /\ \A i \in 1..Len(given[t]) : given[t][i] >= 0) => ~ub

\* C4: a shape with an extent equal to 0, at any position, gives 0.
ZeroExtentGivesZero ==
  \A t \in Threads : (SizeReturned(t) /\ HasZero(given[t])) => ret[t] = 0

\* A zero in the last position, after the accumulator has already wrapped.
ZeroAfterOverflowReturned ==
  \E t \in Threads :
    /\ SizeReturned(t)
    /\ ub
    /\ Len(given[t]) = MaxRank
    /\ given[t][MaxRank] = 0
    /\ ret[t] = 0

NegativeExtentsMultiplied ==
  \A t \in Threads :
    /\ (op[t] = "size" /\ PrefixFits(given[t], Len(given[t]))) =>
         /\ ~trapped
         /\ ~ub
         /\ SizeReturned(t) =>
              /\ ret[t] = PrefixProduct(given[t], Len(given[t]))
              /\ (NegCount(given[t]) % 2 = 1 /\ ~HasZero(given[t])) => ret[t] < 0
              /\ (NegCount(given[t]) % 2 = 0 \/ HasZero(given[t])) => ret[t] >= 0
    /\ (SizeReturned(t) /\ HasZero(given[t])) => ret[t] >= 0

NegativeProductReturned ==
  \E t \in Threads :
    /\ SizeReturned(t)
    /\ given[t] = <<-3, 5, 4>>
    /\ ret[t] = -60

---------------------------------------------------------------------------
\* Properties of a sequence of calls (specification SpecSeq).

\* a and b hold the same extents, each the same number of times.
IsPermutation(a, b) ==
  /\ Len(a) = Len(b)
  /\ \A x \in {a[i] : i \in 1..Len(a)} :
       Cardinality({i \in 1..Len(a) : a[i] = x}) =
       Cardinality({i \in 1..Len(b) : b[i] = x})

\* C7: a call on a non-empty shape returns what the first call of the program
\* returned whenever its shape is a permutation of that call's shape.
OrderIndependent ==
  ( /\ SizeReturned(Main)
    /\ memo.set
    /\ given[Main] # <<>>
    /\ IsPermutation(given[Main], memo.shape) )
  => ret[Main] = memo.result

\* Two different orders of an overflowing shape, both returned.
PermutedShapeReturned ==
  /\ SizeReturned(Main)
  /\ memo.set
  /\ memo.shape = <<46341, 46341, -1>>
  /\ given[Main] = <<-1, 46341, 46341>>
  /\ ret[Main] = memo.result
  /\ ub

\* C9: a call returns what the first call of the program returned for the same
\* shape, whatever calls of either operation were made in between, and the
\* caller's shape is the same after the call as before it.
SameShapeSameResult ==
  /\ op[Main] = "size" => arg[Main] = given[Main]
  /\ ( /\ SizeReturned(Main)
       /\ memo.set
       /\ given[Main] = memo.shape )
     => ret[Main] = memo.result

\* The third call repeats the first one, with a log_vector call in between.
RepeatedCallReturned ==
  /\ SizeReturned(Main)
  /\ calls = 3
  /\ stream # <<>>
  /\ memo.set
  /\ memo.shape = <<46341, -1>>
  /\ given[Main] = memo.shape
  /\ arg[Main] = given[Main]
  /\ ret[Main] = -46341

---------------------------------------------------------------------------
\* Properties of concurrent calls (specification SpecConc).

\* What size_from_shape returns for s when it runs alone: the accumulator
\* after multiplying the extents into ProdInit from left to right.
RECURSIVE SequentialResult(_, _)
SequentialResult(s, k) ==
  IF k = 0 THEN ProdInit ELSE WrapMul(SequentialResult(s, k - 1), s[k])

\* text is the concatenation of whole lines, one per logging thread in T, in
\* some order.
RECURSIVE WholeLines(_, _)
WholeLines(text, T) ==
  IF T = {} THEN text = <<>>
  ELSE \E t \in T : \E k \in 1..Len(text) :
         /\ IsLineOf(SubSeq(text, 1, k), given[t])
         /\ WholeLines(SubSeq(text, k + 1, Len(text)), T \ {t})

AllReturned == \A t \in Threads : pc[t] = "idle" /\ op[t] # "none"

\* C6: when concurrent log_vector calls have returned, stdout holds their
\* lines whole, in some order: no line is interleaved with another call's
\* characters.
LinesNotInterleaved ==
  AllReturned => WholeLines(stream, {t \in Threads : op[t] = "log"})

\* C8: a call returns the value it returns when run alone, whatever the other
\* thread does meanwhile.
ConcurrentAsSequential ==
  \A t \in Threads :
    SizeReturned(t) => ret[t] = SequentialResult(given[t], Len(given[t]))

\* One call has returned while the other, on a different shape, is in its loop.
ConcurrentCallReturned ==
  /\ SizeReturned("t1")
  /\ given["t1"] = <<46341, 46341, -1>>
  /\ ret["t1"] = SequentialResult(given["t1"], 3)
  /\ pc["t2"] = "size_loop"
  /\ given["t2"] = <<3, -1, 3>>
  /\ idx["t2"] = 2
  /\ prod[Acc("t2")] = -3

==========================================================================
